---- MODULE Spec2Model ----
(***************************************************************************)
(* A model of the Cisco Nexus layer-one driver (cisco_nexus_l1).           *)
(*                                                                         *)
(* DriverCommands translates the layer-one operations (map_bidi, map_uni,  *)
(* map_clear, ...) into CLI commands, sends them through a moded CLI       *)
(* session and decides success from the text of the reply.                 *)
(*                                                                         *)
(* Text (addresses, interface names, replies) is a sequence of one-        *)
(* character strings, so that splitting, substitution and pattern search   *)
(* are computed character by character as the Python code computes them.   *)
(***************************************************************************)
EXTENDS Integers, Sequences, FiniteSets, TLC

\* Longest destination / port list a caller passes in one call.
MaxDsts == 2
\* Number of patches plus taps the device holds at once.
MaxRel == 1

(***************************************************************************)
(* Text helpers                                                            *)
(***************************************************************************)
Range(s) == {s[i] : i \in 1..Len(s)}

\* re.IGNORECASE: characters are compared after case folding.
FoldMap ==
    ("A" :> "a") @@ ("B" :> "b") @@ ("C" :> "c") @@ ("D" :> "d") @@ ("E" :> "e") @@
    ("F" :> "f") @@ ("G" :> "g") @@ ("H" :> "h") @@ ("I" :> "i") @@ ("J" :> "j") @@
    ("K" :> "k") @@ ("L" :> "l") @@ ("M" :> "m") @@ ("N" :> "n") @@ ("O" :> "o") @@
    ("P" :> "p") @@ ("Q" :> "q") @@ ("R" :> "r") @@ ("S" :> "s") @@ ("T" :> "t") @@
    ("U" :> "u") @@ ("V" :> "v") @@ ("W" :> "w") @@ ("X" :> "x") @@ ("Y" :> "y") @@
    ("Z" :> "z")

Fold(c) == IF c \in DOMAIN FoldMap THEN FoldMap[c] ELSE c

\* \s of the re module, over the characters replies are made of.
IsSpace(c) == c \in {" ", "\t", "\n", "\r"}

\* The literal lit (given folded) stands in text at position i.
LitAt(text, i, lit) ==
    /\ i >= 1
    /\ i + Len(lit) - 1 <= Len(text)
    /\ \A j \in 1..Len(lit) : Fold(text[i + j - 1]) = lit[j]

\* Position after the longest run of white space starting at i.
RECURSIVE SkipSpace(_, _)
SkipSpace(text, i) ==
    IF i <= Len(text) /\ IsSpace(text[i]) THEN SkipSpace(text, i + 1) ELSE i

\* Python's None, and str.format's rendering of it.
PyNone == <<"None">>
Fmt(x) == IF x = PyNone THEN <<"N","o","n","e">> ELSE x

(***************************************************************************)
(* DriverCommands._convert_port_address                                    *)
(***************************************************************************)
\* port.split("/")[-1]: the text after the last "/" (the whole text if none).
LastSegment(port) ==
    IF \E i \in 1..Len(port) : port[i] = "/"
    THEN LET i == CHOOSE k \in 1..Len(port) :
                    port[k] = "/" /\ \A m \in (k+1)..Len(port) : port[m] # "/"
         IN SubSeq(port, i + 1, Len(port))
    ELSE port

\* str.replace("-", "/")
ReplaceDash(s) == [i \in 1..Len(s) |-> IF s[i] = "-" THEN "/" ELSE s[i]]

\* A faulty conversion: the first segment is taken (split("/")[0]).
convert_port_address_first(port) ==
    IF \E i \in 1..Len(port) : port[i] = "/"
    THEN LET i == CHOOSE k \in 1..Len(port) :
                    port[k] = "/" /\ \A m \in 1..(k-1) : port[m] # "/"
         IN ReplaceDash(SubSeq(port, 1, i - 1))
    ELSE ReplaceDash(port)

convert_port_address(port) == ReplaceDash(LastSegment(port))

\* len(cs_address.split("/"))
SplitCount(s) == 1 + Cardinality({i \in 1..Len(s) : s[i] = "/"})

(***************************************************************************)
(* The reply patterns of the create and remove commands                    *)
(***************************************************************************)
\* A faulty pattern: re.IGNORECASE is left out.
SearchPatchCreatedExact(r) ==
    \E i \in 1..Len(r) :
        /\ i + 12 <= Len(r)
        /\ SubSeq(r, i, i + 12) = <<"p","a","t","c","h"," ","c","r","e","a","t","e","d">>

\* re.search("patch created", result, re.IGNORECASE)
SearchPatchCreated(r) ==
    \E i \in 1..Len(r) :
        LitAt(r, i, <<"p","a","t","c","h"," ","c","r","e","a","t","e","d">>)

\* re.search("Added input tap", result, re.IGNORECASE)
SearchAddedInputTap(r) ==
    \E i \in 1..Len(r) :
        LitAt(r, i, <<"a","d","d","e","d"," ","i","n","p","u","t"," ","t","a","p">>)

\* A faulty pattern: "not found" is not accepted.
SearchPatchDeleted(r) ==
    \E i \in 1..Len(r) :
        /\ LitAt(r, i, <<"p","a","t","c","h">>)
        /\ \E j \in (i + 5)..SkipSpace(r, i + 5) :
              LitAt(r, j, <<"d","e","l","e","t","e","d">>)

\* re.search("patch\s*(deleted|not found)", result, re.IGNORECASE)
SearchPatchRemoved(r) ==
    \E i \in 1..Len(r) :
        /\ LitAt(r, i, <<"p","a","t","c","h">>)
        /\ \E j \in (i + 5)..SkipSpace(r, i + 5) :
              \/ LitAt(r, j, <<"d","e","l","e","t","e","d">>)
              \/ LitAt(r, j, <<"n","o","t"," ","f","o","u","n","d">>)

\* (output|input)* : zero or more repetitions, from position i.
RECURSIVE AfterDirections(_, _)
AfterDirections(r, i) ==
    {i} \cup
    (IF LitAt(r, i, <<"o","u","t","p","u","t">>) THEN AfterDirections(r, i + 6) ELSE {})
    \cup
    (IF LitAt(r, i, <<"i","n","p","u","t">>) THEN AfterDirections(r, i + 5) ELSE {})

\* A faulty pattern: "Tap not found" is not accepted.
SearchTapRemovedOnly(r) ==
    \E i \in 1..Len(r) :
        /\ LitAt(r, i, <<"r","e","m","o","v","e","d">>)
        /\ \E j \in (i + 7)..SkipSpace(r, i + 7) :
             \E k \in AfterDirections(r, j) :
                \E m \in k..SkipSpace(r, k) : LitAt(r, m, <<"t","a","p">>)

\* re.search(r"Removed\s*(output|input)*\s*tap|Tap not found", result, re.IGNORECASE)
SearchTapRemoved(r) ==
    \E i \in 1..Len(r) :
        \/ /\ LitAt(r, i, <<"r","e","m","o","v","e","d">>)
           /\ \E j \in (i + 7)..SkipSpace(r, i + 7) :
                \E k \in AfterDirections(r, j) :
                   \E m \in k..SkipSpace(r, k) : LitAt(r, m, <<"t","a","p">>)
        \/ LitAt(r, i, <<"t","a","p"," ","n","o","t"," ","f","o","u","n","d">>)

(***************************************************************************)
(* The values the calls are made with                                      *)
(***************************************************************************)
\* "h/et1-1" and "h/1/et2": port addresses as the caller gives them.
AddrA == <<"h","/","e","t","1","-","1">>
AddrB == <<"h","/","1","/","e","t","2">>
PortAddrs == {AddrA, AddrB}
\* "h": the address of the chassis itself.
AddrChassis == <<"h">>
AttrAddrs == {AddrChassis, AddrA, AddrB}
AttrNames == {"Serial Number", "Port Speed"}

\* Destination and port lists of up to MaxDsts addresses.
AddrLists == UNION {[1..n -> PortAddrs] : n \in 0..MaxDsts}

\* Every interface name a command can carry.
NameA == <<"e","t","1","/","1">>
NameB == <<"e","t","2">>
NameSeq == <<NameA, NameB>>
Names == Range(NameSeq)
NamePairs == Names \X Names

(***************************************************************************)
(* The device: its patch and tap tables, and what it answers               *)
(***************************************************************************)
ReplyPatchCreated  == <<"P","a","t","c","h"," ","c","r","e","a","t","e","d">>
ReplyPatchDeleted  == <<"P","a","t","c","h"," ","d","e","l","e","t","e","d">>
ReplyPatchNotFound == <<"P","a","t","c","h"," ","n","o","t"," ","f","o","u","n","d">>
ReplyTapAdded      == <<"A","d","d","e","d"," ","i","n","p","u","t"," ","t","a","p">>
ReplyTapRemoved    == <<"R","e","m","o","v","e","d"," ","i","n","p","u","t"," ","t","a","p">>
ReplyTapNotFound   == <<"T","a","p"," ","n","o","t"," ","f","o","u","n","d">>
\* An answer none of the patterns accepts.
ReplyInvalid       == <<"%"," ","I","n","v","a","l","i","d"," ","i","n","p","u","t">>
\* No answer: the channel failed.
NoReply            == <<"<no reply>">>

\* What "show version | grep Serial" prints, on two chassis.
SerialTextOne == <<"S","e","r","i","a","l"," ","n","u","m","b","e","r"," ","F","O","C","1","\n">>
SerialTextTwo == <<"s","e","r","i","a","l"," "," ","N","u","m","b","e","r"," ","X","2">>
SerialTexts == {SerialTextOne, SerialTextTwo}

VerbPatch    == "patch"
VerbTap      == "tap"
VerbNoPatch  == "no patch"
VerbNoTap    == "no tap"
VerbSerial   == "show version | grep Serial"
VerbIfaces   == "show interface brief"
VerbShowBidi == "show config running-config patch"
VerbShowTap  == "show config running-config tap"

\* "<verb> {src} {dst}".format(...): the command line, by its parts.
Cmd(verb, a, b) == [verb |-> verb, a |-> a, b |-> b]

(***************************************************************************)
(* DriverCommands._get_serial_number: the label and a final line break     *)
(* are cut out of the reply.                                               *)
(***************************************************************************)
\* End (exclusive) of a match of "serial\s+number\s+" at i, or 0.
SerialLabelEnd(text, i) ==
    IF LitAt(text, i, <<"s","e","r","i","a","l">>)
       /\ SkipSpace(text, i + 6) > i + 6
       /\ LitAt(text, SkipSpace(text, i + 6), <<"n","u","m","b","e","r">>)
       /\ SkipSpace(text, SkipSpace(text, i + 6) + 6) > SkipSpace(text, i + 6) + 6
    THEN SkipSpace(text, SkipSpace(text, i + 6) + 6)
    ELSE 0

\* "\n$": a line break at the end of the text, or before a final line break.
FinalBreakAt(text, i) ==
    /\ text[i] = "\n"
    /\ \/ i = Len(text)
       \/ i + 1 = Len(text) /\ text[i + 1] = "\n"

\* re.sub("serial\s+number\s+|\n$", "", serial_number, flags=re.IGNORECASE)
RECURSIVE StripSerial(_, _)
StripSerial(text, i) ==
    IF i > Len(text) THEN <<>>
    ELSE IF SerialLabelEnd(text, i) # 0 THEN StripSerial(text, SerialLabelEnd(text, i))
    ELSE IF FinalBreakAt(text, i) THEN StripSerial(text, i + 1)
    ELSE <<text[i]>> \o StripSerial(text, i + 1)


(***************************************************************************)
(* The mapping tables as the device prints them, and as                    *)
(* _get_bidi_mappings / _get_tap_mappings read them                        *)
(***************************************************************************)
\* Position of the first line break at or after p (Len + 1 if none).
RECURSIVE LineEnd(_, _)
LineEnd(text, p) ==
    IF p > Len(text) \/ text[p] = "\n" THEN p ELSE LineEnd(text, p + 1)

\* The second group "(et.+)" can start after the white space that begins at j.
PairTailAt(text, j) ==
    /\ j <= Len(text)
    /\ IsSpace(text[j])
    /\ LitAt(text, SkipSpace(text, j), <<"e","t">>)
    /\ SkipSpace(text, j) + 2 <= Len(text)
    /\ text[SkipSpace(text, j) + 2] # "\n"

\* Ends (exclusive) the first group "(et.+)" can take when it starts at i.
PairHeadEnds(text, i) ==
    IF LitAt(text, i, <<"e","t">>)
    THEN {j \in (i + 3)..LineEnd(text, i + 2) : PairTailAt(text, j)}
    ELSE {}

Max(S) == CHOOSE x \in S : \A y \in S : y <= x

\* re.findall(r"(?P<src>et.+)\s+(?P<dst>et.+)", mappings, re.IGNORECASE)
RECURSIVE FindAllPairs(_, _)
FindAllPairs(text, i) ==
    IF i > Len(text) THEN <<>>
    ELSE IF PairHeadEnds(text, i) = {} THEN FindAllPairs(text, i + 1)
    ELSE LET j == Max(PairHeadEnds(text, i))
             k == SkipSpace(text, j)
             e == LineEnd(text, k + 2)
         IN <<<<SubSeq(text, i, j - 1), SubSeq(text, k, e - 1)>>>> \o FindAllPairs(text, e)

\* dict.get(key): the value of the last pair with that key, None without one.
DictGet(pairs, key) ==
    IF \E n \in 1..Len(pairs) : pairs[n][1] = key
    THEN pairs[Max({n \in 1..Len(pairs) : pairs[n][1] = key})][2]
    ELSE PyNone

\* {dst: src for src, dst in ...}
Swapped(pairs) == [n \in 1..Len(pairs) |-> <<pairs[n][2], pairs[n][1]>>]

(***************************************************************************)
(* The interface list, as get_resource_description reads it                *)
(***************************************************************************)
\* \d and \w of the re module, over the characters replies are made of.
IsDigit(c) == c \in {"0", "1", "2", "3", "4", "5", "6", "7", "8", "9"}
Letters == {FoldMap[c] : c \in DOMAIN FoldMap}
IsWord(c) == IsDigit(c) \/ c = "_" \/ Fold(c) \in Letters

\* Position after the longest run of word characters / digits starting at i.
RECURSIVE SkipWord(_, _)
SkipWord(text, i) ==
    IF i <= Len(text) /\ IsWord(text[i]) THEN SkipWord(text, i + 1) ELSE i

RECURSIVE SkipDigits(_, _)
SkipDigits(text, i) ==
    IF i <= Len(text) /\ IsDigit(text[i]) THEN SkipDigits(text, i + 1) ELSE i

Min(S) == CHOOSE x \in S : \A y \in S : x <= y

\* "\s+(?P<speed>\d+)" matches at q: white space, then a digit.
SpeedAt(text, q) ==
    /\ q <= Len(text)
    /\ IsSpace(text[q])
    /\ SkipDigits(text, SkipSpace(text, q)) > SkipSpace(text, q)

\* Ends (exclusive) "(?P<transceiver>.+?)" can take when it starts at p: one
\* or more characters of the line, with "\s+(?P<speed>\d+)" after them.
TransceiverEnds(text, p) == {q \in (p + 1)..LineEnd(text, p) : SpeedAt(text, q)}

\* Ends the "\s+" before the transceiver can take when it starts at p.
StatusGapEnds(text, p) ==
    {q \in (p + 1)..SkipSpace(text, p) : TransceiverEnds(text, q) # {}}

\* "\s+(?P<status>\w+)\s+(?P<transceiver>.+?)\s+(?P<speed>\d+)" matches at e.
\* The white space is followed by a word character and the word by white
\* space, so both runs are taken whole.
IfaceRestAt(text, e) ==
    /\ e <= Len(text)
    /\ IsSpace(text[e])
    /\ SkipWord(text, SkipSpace(text, e)) > SkipSpace(text, e)
    /\ StatusGapEnds(text, SkipWord(text, SkipSpace(text, e))) # {}

\* Ends (exclusive) "(?P<iface>et.+?)" can take when it starts at i.
IfaceEnds(text, i) ==
    IF LitAt(text, i, <<"e","t">>)
    THEN {e \in (i + 3)..LineEnd(text, i + 2) : IfaceRestAt(text, e)}
    ELSE {}

\* The match of the whole pattern at i: the lazy groups take the least, the
\* greedy ones the most that lets the rest match.
IfaceMatch(text, i) ==
    LET e == Min(IfaceEnds(text, i))
        w == SkipWord(text, SkipSpace(text, e))
        g == Max(StatusGapEnds(text, w))
        t == Min(TransceiverEnds(text, g))
        d == SkipSpace(text, t)
    IN [iface |-> SubSeq(text, i, e - 1),
        speed |-> SubSeq(text, d, SkipDigits(text, d) - 1),
        end |-> SkipDigits(text, d)]

\* re.findall(r"(?P<iface>et.+?)\s+(?P<status>\w+)\s+(?P<transceiver>.+?)\s+
\* (?P<speed>\d+)", ports_out, re.IGNORECASE), the groups the loop uses.
RECURSIVE FindAllIfaces(_, _)
FindAllIfaces(text, i) ==
    IF i > Len(text) THEN <<>>
    ELSE IF IfaceEnds(text, i) = {} THEN FindAllIfaces(text, i + 1)
    ELSE LET m == IfaceMatch(text, i)
         IN <<[iface |-> m.iface, speed |-> m.speed]>> \o FindAllIfaces(text, m.end)

\* End (exclusive) of the longest "(hernet)*" at i.
RECURSIVE SkipHernet(_, _)
SkipHernet(text, i) ==
    IF LitAt(text, i, <<"h","e","r","n","e","t">>) THEN SkipHernet(text, i + 6) ELSE i

\* re.sub(r"et(hernet)*", "ethernet", port_name, flags=re.IGNORECASE)
RECURSIVE SubEthernet(_, _)
SubEthernet(text, i) ==
    IF i > Len(text) THEN <<>>
    ELSE IF LitAt(text, i, <<"e","t">>)
    THEN <<"e","t","h","e","r","n","e","t">> \o SubEthernet(text, SkipHernet(text, i + 2))
    ELSE <<text[i]>> \o SubEthernet(text, i + 1)

\* port_name.replace("/", "-")
ReplaceSlash(name) == [i \in 1..Len(name) |-> IF name[i] = "/" THEN "-" ELSE name[i]]

\* The loop over port_match: one Port per match, named by the normalised
\* name with "-" for "/"; key is what port_dict holds the Port under.
PortsOf(matches) ==
    [n \in 1..Len(matches) |->
        [name |-> ReplaceSlash(SubEthernet(matches[n].iface, 1)),
         key |-> SubEthernet(matches[n].iface, 1),
         speed |-> matches[n].speed]]

\* A faulty lookup: a name port_dict does not hold gives the first Port.
PortDictGetFirst(ports, name) ==
    IF \E n \in 1..Len(ports) : ports[n].key = name
    THEN Max({n \in 1..Len(ports) : ports[n].key = name})
    ELSE IF ports = <<>> THEN 0 ELSE 1

\* port_dict.get(name): the Port stored last under name (its place in the
\* chassis), 0 for None.
PortDictGet(ports, name) ==
    IF \E n \in 1..Len(ports) : ports[n].key = name
    THEN Max({n \in 1..Len(ports) : ports[n].key = name})
    ELSE 0

\* dict.items(): of the pairs with one key the last one stays.
DictItems(pairs) ==
    {pairs[n] : n \in {k \in 1..Len(pairs) :
                          \A m \in (k + 1)..Len(pairs) : pairs[m][1] # pairs[k][1]}}

\* The loop over bidi_mappings.items(): <<i, j>> says Port i lists Port j.
BidiLinks(ports, items) ==
    UNION {IF PortDictGet(ports, e[1]) # 0 /\ PortDictGet(ports, e[2]) # 0
           THEN {<<PortDictGet(ports, e[1]), PortDictGet(ports, e[2])>>,
                 <<PortDictGet(ports, e[2]), PortDictGet(ports, e[1])>>}
           ELSE {} : e \in items}

\* The loop over tap_mappings.items().
TapLinks(ports, items) ==
    UNION {IF PortDictGet(ports, e[1]) # 0 /\ PortDictGet(ports, e[2]) # 0
           THEN {<<PortDictGet(ports, e[1]), PortDictGet(ports, e[2])>>}
           ELSE {} : e \in items}

\* The device prints one line "<src> <dst>" per entry, in a fixed order.
PairSeq == <<<<NameA, NameA>>, <<NameA, NameB>>, <<NameB, NameA>>, <<NameB, NameB>>>>

RECURSIVE RenderFrom(_, _)
RenderFrom(table, n) ==
    IF n > Len(PairSeq) THEN <<>>
    ELSE (IF PairSeq[n] \in table
          THEN PairSeq[n][1] \o <<" ">> \o PairSeq[n][2] \o <<"\n">>
          ELSE <<>>) \o RenderFrom(table, n + 1)

RenderTable(table) == RenderFrom(table, 1)


\* "show interface brief" on a device with the two interfaces.
IfaceText == <<"e","t","1","/","1"," ","u","p"," ","S","F","P"," ","1","0","0","0","0","\n","e","t","2"," ","u","p"," ","S","F","P"," ","1","0","0","0","\n">>

(***************************************************************************)
(* The functions above, tabulated over the texts that occur in a run (each *)
(* is computed once per text); any other text is computed directly.        *)
(***************************************************************************)
ConvertedAddr == [p \in PortAddrs |-> convert_port_address(p)]
Converted(p) == IF p \in PortAddrs THEN ConvertedAddr[p] ELSE convert_port_address(p)

Tables == SUBSET Range(PairSeq)
RenderedTable == [t \in Tables |-> RenderTable(t)]
TableText(t) == IF t \in Tables THEN RenderedTable[t] ELSE RenderTable(t)

TableTexts == {RenderedTable[t] : t \in Tables}
PairsOfText == [x \in TableTexts |-> FindAllPairs(x, 1)]
FindAll(text) == IF text \in TableTexts THEN PairsOfText[text] ELSE FindAllPairs(text, 1)

PortsOfIfaceText == PortsOf(FindAllIfaces(IfaceText, 1))
PortsOfText(text) ==
    IF text = IfaceText THEN PortsOfIfaceText ELSE PortsOf(FindAllIfaces(text, 1))

SerialOfText == [x \in SerialTexts |-> StripSerial(x, 1)]
Stripped(text) == IF text \in SerialTexts THEN SerialOfText[text] ELSE StripSerial(text, 1)

Replies == {ReplyPatchCreated, ReplyPatchDeleted, ReplyPatchNotFound, ReplyTapAdded,
            ReplyTapRemoved, ReplyTapNotFound, ReplyInvalid}
PatchCreatedReplies == {r \in Replies : SearchPatchCreated(r)}
AddedInputTapReplies == {r \in Replies : SearchAddedInputTap(r)}
PatchRemovedReplies == {r \in Replies : SearchPatchRemoved(r)}
TapRemovedReplies == {r \in Replies : SearchTapRemoved(r)}
IsPatchCreated(r) ==
    IF r \in Replies THEN r \in PatchCreatedReplies ELSE SearchPatchCreated(r)
IsAddedInputTap(r) ==
    IF r \in Replies THEN r \in AddedInputTapReplies ELSE SearchAddedInputTap(r)
IsPatchRemoved(r) ==
    IF r \in Replies THEN r \in PatchRemovedReplies ELSE SearchPatchRemoved(r)
IsTapRemoved(r) ==
    IF r \in Replies THEN r \in TapRemovedReplies ELSE SearchTapRemoved(r)

(***************************************************************************)
(* State                                                                   *)
(***************************************************************************)
VARIABLES
    patches,     \* the device's patch table: pairs <<src, dst>> of interface names
    taps,        \* the device's tap table: pairs <<src, dst>>
    mode,        \* the command mode the CLI session is in
    cli,         \* DriverCommands.cli is set (a login has built the handler)
    switch_id,   \* DriverCommands._switch_id
    pc,          \* "idle": no call in progress; "done": a call has just ended
    last,        \* the call that has just ended: arguments, outcome, exchange
    login_reply, \* what the device printed as its serial at the latest login
                 \* that read it (history; None before)
    probe        \* one application of a function of the driver to a text:
                 \* the text, and the result once it is computed

vars == <<patches, taps, mode, cli, switch_id, pc, last, login_reply, probe>>

NoText == <<>>
NoCmd == Cmd("", NoText, NoText)

\* Exceptions. kind "none": no exception is propagating.
NoExc == [kind |-> "none", text |-> "", src |-> NoText, dst |-> NoText]
LayerOneDriverException(text, src, dst) ==
    [kind |-> "LayerOneDriverException", text |-> text, src |-> src, dst |-> dst]
TransportError == [kind |-> "TransportError", text |-> "", src |-> NoText, dst |-> NoText]
AttributeError == [kind |-> "AttributeError", text |-> "", src |-> NoText, dst |-> NoText]
NotImplementedError ==
    [kind |-> "NotImplementedError", text |-> "", src |-> NoText, dst |-> NoText]

\* Return values.
NoRet == [type |-> "None", num |-> 0, text |-> NoText]
GetStateIdResponseInfo(n) == [type |-> "GetStateIdResponseInfo", num |-> n, text |-> NoText]
AttributeValueResponseInfo(v) ==
    [type |-> "AttributeValueResponseInfo", num |-> 0, text |-> v]
\* Chassis(0, address, model, serial) with its Ports and their mappings.
Chassis(address, serial, ports, maps) ==
    [address |-> address, model |-> "Cisco L1 Nexus Chassis", serial |-> serial,
     ports |-> ports, maps |-> maps]
\* ResourceDescriptionResponseInfo([chassis]); text is the chassis' serial.
ResourceDescriptionResponseInfo(chassis) ==
    [type |-> "ResourceDescriptionResponseInfo", num |-> 0, text |-> chassis.serial,
     chassis |-> chassis]

\* What the device does with the commands of one call: command number at
\* gets an answer no pattern accepts ("invalid") or none at all ("transport");
\* Answers(texts): the device answers the n-th command with texts[n].
NoFault == [at |-> 0, kind |-> "none"]
Faults(n) == {NoFault} \cup [at : 1..n, kind : {"invalid", "transport"}]
Answers(texts) == [at |-> 0, kind |-> "answer", texts |-> texts]

Ok(c) == c.exc.kind = "none"
Raise(c, e) == [c EXCEPT !.exc = e]

(***************************************************************************)
(* The device's answer to a command it accepts                             *)
(***************************************************************************)
DeviceAnswer(cmd, c) ==
    LET pair == <<cmd.a, cmd.b>>
        same(r) == [reply |-> r, patches |-> c.patches, taps |-> c.taps]
    IN CASE cmd.verb = VerbPatch ->
              [reply |-> ReplyPatchCreated, patches |-> c.patches \cup {pair},
               taps |-> c.taps]
         [] cmd.verb = VerbTap ->
              [reply |-> ReplyTapAdded, patches |-> c.patches,
               taps |-> c.taps \cup {pair}]
         [] cmd.verb = VerbNoPatch ->
              IF pair \in c.patches
              THEN [reply |-> ReplyPatchDeleted, patches |-> c.patches \ {pair},
                    taps |-> c.taps]
              ELSE same(ReplyPatchNotFound)
         [] cmd.verb = VerbNoTap ->
              IF pair \in c.taps
              THEN [reply |-> ReplyTapRemoved, patches |-> c.patches,
                    taps |-> c.taps \ {pair}]
              ELSE same(ReplyTapNotFound)
         [] cmd.verb = VerbSerial -> same(c.serialText)
         [] cmd.verb = VerbIfaces -> same(IfaceText)
         [] cmd.verb = VerbShowBidi -> same(TableText(c.patches))
         [] cmd.verb = VerbShowTap -> same(TableText(c.taps))
         [] OTHER -> same(ReplyInvalid)

(***************************************************************************)
(* The CLI session                                                         *)
(***************************************************************************)
Event(ev, m, cmd, reply) == [ev |-> ev, mode |-> m, cmd |-> cmd, reply |-> reply]

\* session.send_command(text): one command line out, the reply text back;
\* a failure of the channel is raised as it is.
send_command(c, cmd) ==
    IF c.fault.at = c.sent + 1 /\ c.fault.kind = "transport"
    THEN [c EXCEPT !.sent = @ + 1,
                   !.log = Append(@, Event("send", c.mode, cmd, NoReply)),
                   !.exc = TransportError]
    ELSE IF c.fault.kind = "answer" /\ c.sent < Len(c.fault.texts)
    THEN [c EXCEPT !.sent = @ + 1,
                   !.log = Append(@, Event("send", c.mode, cmd, c.fault.texts[c.sent + 1])),
                   !.reply = c.fault.texts[c.sent + 1]]
    ELSE IF c.fault.at = c.sent + 1
    THEN [c EXCEPT !.sent = @ + 1,
                   !.log = Append(@, Event("send", c.mode, cmd, ReplyInvalid)),
                   !.reply = ReplyInvalid]
    ELSE \* the device takes the command and answers it
         CHOOSE r \in {[c EXCEPT !.sent = @ + 1,
                                !.log = Append(@, Event("send", c.mode, cmd, ans.reply)),
                                !.reply = ans.reply,
                                !.patches = ans.patches,
                                !.taps = ans.taps] : ans \in {DeviceAnswer(cmd, c)}} : TRUE

\* self.cli.<mode>_mode_service().__enter__(): self.cli is None before login.
enter_mode(c, m) ==
    IF ~c.cli THEN Raise(c, AttributeError)
    ELSE [c EXCEPT !.mode = m, !.log = Append(@, Event("enter", m, NoCmd, NoReply))]

\* __exit__ of the mode service: the session is back in the mode it had.
exit_mode(c, prior) ==
    [c EXCEPT !.mode = prior, !.log = Append(@, Event("exit", c.mode, NoCmd, NoReply))]

\* A faulty "with": the mode is left only when the block ends normally.
with_exit_on_return(c, prior) == IF Ok(c) THEN exit_mode(c, prior) ELSE c

\* The end of a "with" block: __exit__ runs on every way out of the block.
with_exit(c, prior) == exit_mode(c, prior)

(***************************************************************************)
(* DriverCommands: the private helpers                                     *)
(*                                                                         *)
(* Every operation takes the context c it runs in (device, session, the    *)
(* driver's fields, what is raised) and gives the context it ends in.      *)
(* Let(v, Body) names the value v once, as an assignment does.             *)
(***************************************************************************)
Let(v, Body(_)) == CHOOSE r \in {Body(x) : x \in {v}} : TRUE

\* _get_serial_number(session); the value is left in c.value.
get_serial_number(c) ==
    Let(send_command(c, Cmd(VerbSerial, NoText, NoText)),
        LAMBDA r : IF Ok(r) THEN [r EXCEPT !.value = Stripped(r.reply)] ELSE r)

\* _get_bidi_mappings(session): dict(re.findall(...)), as its list of items.
get_bidi_mappings(c) ==
    Let(send_command(c, Cmd(VerbShowBidi, NoText, NoText)),
        LAMBDA r : IF Ok(r) THEN [r EXCEPT !.value = FindAll(r.reply)] ELSE r)

\* _get_tap_mappings(session): {dst: src for src, dst in re.findall(...)}
get_tap_mappings(c) ==
    Let(send_command(c, Cmd(VerbShowTap, NoText, NoText)),
        LAMBDA r : IF Ok(r)
                   THEN [r EXCEPT !.value = Swapped(FindAll(r.reply))]
                   ELSE r)

\* The raise of _remove_bidi_mapping, when the reply r.reply is not accepted.
bidi_removed_or_raise(r, src_port, dst_port) ==
    IF Ok(r) /\ ~IsPatchRemoved(r.reply)
    THEN Raise(r, LayerOneDriverException("Failed to delete bidi mapping between",
                                          Fmt(src_port), Fmt(dst_port)))
    ELSE r

\* A faulty removal: a reply that is not accepted makes it send the command again.
remove_bidi_mapping_retry(c, src_port, dst_port) ==
    Let(send_command(c, Cmd(VerbNoPatch, Fmt(src_port), Fmt(dst_port))),
        LAMBDA r :
          IF Ok(r) /\ ~IsPatchRemoved(r.reply)
          THEN Let(send_command(r, Cmd(VerbNoPatch, Fmt(src_port), Fmt(dst_port))),
                   LAMBDA q : bidi_removed_or_raise(q, src_port, dst_port))
          ELSE r)

\* _remove_bidi_mapping(session, src_port, dst_port)
remove_bidi_mapping(c, src_port, dst_port) ==
    Let(send_command(c, Cmd(VerbNoPatch, Fmt(src_port), Fmt(dst_port))),
        LAMBDA r : bidi_removed_or_raise(r, src_port, dst_port))

\* _remove_tap_mapping(session, src_port, dst_port)
remove_tap_mapping(c, src_port, dst_port) ==
    Let(send_command(c, Cmd(VerbNoTap, Fmt(src_port), Fmt(dst_port))),
        LAMBDA r :
          IF Ok(r) /\ ~IsTapRemoved(r.reply)
          THEN Raise(r, LayerOneDriverException("Failed to delete tap mapping between",
                                                Fmt(src_port), Fmt(dst_port)))
          ELSE r)

(***************************************************************************)
(* DriverCommands: the operations                                          *)
(***************************************************************************)
\* A faulty login: the cached serial is dropped before the new one is read.
login_forgetting(c) ==
    Let([c EXCEPT !.cli = TRUE, !.switch_id = PyNone], LAMBDA h :
    Let(enter_mode(h, "enable"), LAMBDA e :
    Let(get_serial_number(e), LAMBDA r :
    Let(IF Ok(r) THEN [r EXCEPT !.switch_id = r.value] ELSE r, LAMBDA b :
        with_exit(b, c.mode)))))

\* login(address, username, password)
login(c) ==
    Let([c EXCEPT !.cli = TRUE], LAMBDA h :
    Let(enter_mode(h, "enable"), LAMBDA e :
    Let(get_serial_number(e), LAMBDA r :
    Let(IF Ok(r) THEN [r EXCEPT !.switch_id = r.value] ELSE r, LAMBDA b :
        with_exit(b, c.mode)))))

\* A faulty get_state_id: it opens a session as its docstring example does.
get_state_id_session(c) ==
    Let(enter_mode(c, "config"), LAMBDA e :
        IF Ok(e)
        THEN with_exit([e EXCEPT !.ret = GetStateIdResponseInfo(-1)], c.mode)
        ELSE e)

\* get_state_id()
get_state_id(c) == [c EXCEPT !.ret = GetStateIdResponseInfo(-1)]

\* set_state_id(state_id)
set_state_id(c, state_id) == c

\* A faulty block: the error names the addresses as they were given.
map_bidi_body_raw(c, src_port, dst_port) ==
    Let(send_command(c, Cmd(VerbPatch, Converted(src_port), Converted(dst_port))),
        LAMBDA r :
          IF Ok(r) /\ ~IsPatchCreated(r.reply)
          THEN Raise(r, LayerOneDriverException("Failed to create mapping between",
                                                src_port, dst_port))
          ELSE r)

\* The block of map_bidi's "with".
map_bidi_body(c, src_port, dst_port) ==
    Let(send_command(c, Cmd(VerbPatch, Converted(src_port),
                            Converted(dst_port))),
        LAMBDA r :
          IF Ok(r) /\ ~IsPatchCreated(r.reply)
          THEN Raise(r, LayerOneDriverException("Failed to create mapping between",
                                                Converted(src_port),
                                                Converted(dst_port)))
          ELSE r)

\* map_bidi(src_port, dst_port)
map_bidi(c, src_port, dst_port) ==
    Let(enter_mode(c, "config"), LAMBDA e :
        IF Ok(e)
        THEN Let(map_bidi_body(e, src_port, dst_port), LAMBDA b : with_exit(b, c.mode))
        ELSE e)

\* One turn of map_uni's loop.
map_uni_step(c, src_port, dst_port) ==
    Let(Converted(src_port), LAMBDA src :
    Let(Converted(dst_port), LAMBDA dst :
    Let(send_command(c, Cmd(VerbTap, src, dst)), LAMBDA r :
        IF Ok(r) /\ ~IsAddedInputTap(r.reply)
        THEN Raise(r, LayerOneDriverException("Failed to create mapping between",
                                              src, dst))
        ELSE r)))

\* A faulty loop: a destination that fails is passed over and the rest are
\* tapped before the failure is raised.
RECURSIVE map_uni_loop_skip(_, _, _, _)
map_uni_loop_skip(c, src_port, dst_ports, i) ==
    IF i > Len(dst_ports) \/ c.exc.kind \notin {"none", "LayerOneDriverException"} THEN c
    ELSE Let(map_uni_step([c EXCEPT !.exc = NoExc], src_port, dst_ports[i]), LAMBDA r :
         Let(map_uni_loop_skip(r, src_port, dst_ports, i + 1), LAMBDA n :
             IF Ok(n) /\ ~Ok(c) THEN Raise(n, c.exc) ELSE n))

\* for dst_port in dst_ports: ... ; a raise ends the loop.
RECURSIVE map_uni_loop(_, _, _, _)
map_uni_loop(c, src_port, dst_ports, i) ==
    IF i > Len(dst_ports) \/ ~Ok(c) THEN c
    ELSE Let(map_uni_step(c, src_port, dst_ports[i]), LAMBDA r :
             map_uni_loop(r, src_port, dst_ports, i + 1))

\* map_uni(src_port, dst_ports)
map_uni(c, src_port, dst_ports) ==
    Let(enter_mode(c, "config"), LAMBDA e :
        IF Ok(e)
        THEN Let(map_uni_loop(e, src_port, dst_ports, 1), LAMBDA b : with_exit(b, c.mode))
        ELSE e)

\* A faulty delegation: only the first destination is handed on.
map_tap_first(c, src_port, dst_ports) ==
    map_uni(c, src_port, IF dst_ports = <<>> THEN <<>> ELSE <<dst_ports[1]>>)

\* map_tap(src_port, dst_ports)
map_tap(c, src_port, dst_ports) == map_uni(c, src_port, dst_ports)

\* The key map_clear looks the port's peer up with: the text "src_port".
KeySrcPort == <<"s","r","c","_","p","o","r","t">>

\* The two tap removals of map_clear's block, after the two bidi removals.
map_clear_taps(c, src_port) ==
    Let(get_tap_mappings(c), LAMBDA t :
        IF ~Ok(t) THEN t
        ELSE Let(DictGet(t.value, KeySrcPort), LAMBDA dst_port :
             Let(remove_tap_mapping(t, src_port, dst_port), LAMBDA r3 :
                 IF Ok(r3) THEN remove_tap_mapping(r3, dst_port, src_port) ELSE r3)))

\* The block of map_clear's "with", for one port.
map_clear_body(c, port) ==
    Let(Converted(port), LAMBDA src_port :
    Let(get_bidi_mappings(c), LAMBDA b :
        IF ~Ok(b) THEN b
        ELSE Let(DictGet(b.value, KeySrcPort), LAMBDA dst_port :
             Let(remove_bidi_mapping(b, src_port, dst_port), LAMBDA r1 :
                 IF ~Ok(r1) THEN r1
                 ELSE Let(remove_bidi_mapping(r1, dst_port, src_port), LAMBDA r2 :
                          IF Ok(r2) THEN map_clear_taps(r2, src_port) ELSE r2)))))

\* for port in ports: with self.cli.config_mode_service() as session: ...
RECURSIVE map_clear_loop(_, _, _)
map_clear_loop(c, ports, i) ==
    IF i > Len(ports) \/ ~Ok(c) THEN c
    ELSE Let(enter_mode(c, "config"), LAMBDA e :
             IF ~Ok(e) THEN e
             ELSE Let(map_clear_body(e, ports[i]), LAMBDA b :
                  Let(with_exit(b, c.mode), LAMBDA r :
                      map_clear_loop(r, ports, i + 1))))

\* map_clear(ports)
map_clear(c, ports) == map_clear_loop(c, ports, 1)

\* The two tap removals of a turn of map_clear_to's loop.
map_clear_to_taps(c, src, dst) ==
    Let(remove_tap_mapping(c, src, dst), LAMBDA r3 :
        IF Ok(r3) THEN remove_tap_mapping(r3, dst, src) ELSE r3)

\* A faulty turn: only the taps are removed.
map_clear_to_step_taps(c, src_port, dst_port) ==
    map_clear_to_taps(c, Converted(src_port), Converted(dst_port))

\* One turn of map_clear_to's loop.
map_clear_to_step(c, src_port, dst_port) ==
    Let(Converted(src_port), LAMBDA src :
    Let(Converted(dst_port), LAMBDA dst :
    Let(remove_bidi_mapping(c, src, dst), LAMBDA r1 :
        IF ~Ok(r1) THEN r1
        ELSE Let(remove_bidi_mapping(r1, dst, src), LAMBDA r2 :
                 IF Ok(r2) THEN map_clear_to_taps(r2, src, dst) ELSE r2))))

RECURSIVE map_clear_to_loop(_, _, _, _)
map_clear_to_loop(c, src_port, dst_ports, i) ==
    IF i > Len(dst_ports) \/ ~Ok(c) THEN c
    ELSE Let(map_clear_to_step(c, src_port, dst_ports[i]), LAMBDA r :
             map_clear_to_loop(r, src_port, dst_ports, i + 1))

\* A faulty map_clear_to: the "with" is inside the loop, one config session for
\* each destination.
RECURSIVE map_clear_to_each_loop(_, _, _, _)
map_clear_to_each_loop(c, src_port, dst_ports, i) ==
    IF i > Len(dst_ports) \/ ~Ok(c) THEN c
    ELSE Let(enter_mode(c, "config"), LAMBDA e :
             IF ~Ok(e) THEN e
             ELSE Let(map_clear_to_step(e, src_port, dst_ports[i]), LAMBDA b :
                  Let(with_exit(b, c.mode), LAMBDA r :
                      map_clear_to_each_loop(r, src_port, dst_ports, i + 1))))

map_clear_to_each(c, src_port, dst_ports) ==
    map_clear_to_each_loop(c, src_port, dst_ports, 1)

\* map_clear_to(src_port, dst_ports)
map_clear_to(c, src_port, dst_ports) ==
    Let(enter_mode(c, "config"), LAMBDA e :
        IF Ok(e)
        THEN Let(map_clear_to_loop(e, src_port, dst_ports, 1),
                 LAMBDA b : with_exit(b, c.mode))
        ELSE e)

\* The Ports of the interface list ports_out and the mappings the two loops
\* add, returned as the chassis of the response.
scan_result(c, address, serial, ports_out, bidi_mappings, tap_mappings) ==
    Let(PortsOfText(ports_out), LAMBDA ports :
        [c EXCEPT !.ret = ResourceDescriptionResponseInfo(
                              Chassis(address, serial, ports,
                                      BidiLinks(ports, DictItems(bidi_mappings))
                                      \cup TapLinks(ports, DictItems(tap_mappings))))])

\* A faulty block: the tap table is read before the patch table.
get_resource_description_body_taps_first(c, address) ==
    Let(get_serial_number(c), LAMBDA s :
        IF ~Ok(s) THEN s
        ELSE Let(send_command(s, Cmd(VerbIfaces, NoText, NoText)), LAMBDA p :
                 IF ~Ok(p) THEN p
                 ELSE Let(get_tap_mappings(p), LAMBDA t :
                          IF ~Ok(t) THEN t
                          ELSE Let(get_bidi_mappings(t), LAMBDA b :
                                   IF Ok(b)
                                   THEN scan_result(b, address, s.value, p.reply,
                                                    b.value, t.value)
                                   ELSE b))))

\* The block of get_resource_description's "with".
get_resource_description_body(c, address) ==
    Let(get_serial_number(c), LAMBDA s :
        IF ~Ok(s) THEN s
        ELSE Let(send_command(s, Cmd(VerbIfaces, NoText, NoText)), LAMBDA p :
                 IF ~Ok(p) THEN p
                 ELSE Let(get_bidi_mappings(p), LAMBDA b :
                          IF ~Ok(b) THEN b
                          ELSE Let(get_tap_mappings(b), LAMBDA t :
                                   IF Ok(t)
                                   THEN scan_result(t, address, s.value, p.reply,
                                                    b.value, t.value)
                                   ELSE t))))

\* A faulty discovery: the serial it reads replaces the cached one.
get_resource_description_caching(c, address) ==
    Let(enter_mode(c, "config"), LAMBDA e :
        IF Ok(e)
        THEN Let(get_resource_description_body(e, address), LAMBDA b :
                 with_exit(IF Ok(b) THEN [b EXCEPT !.switch_id = b.ret.text] ELSE b,
                           c.mode))
        ELSE e)

\* get_resource_description(address)
get_resource_description(c, address) ==
    Let(enter_mode(c, "config"), LAMBDA e :
        IF Ok(e)
        THEN Let(get_resource_description_body(e, address),
                 LAMBDA b : with_exit(b, c.mode))
        ELSE e)

\* A faulty reading: the chassis is taken to have two segments.
get_attribute_value_two(c, cs_address, attribute_name) ==
    IF attribute_name = "Serial Number"
    THEN IF SplitCount(cs_address) = 2
         THEN [c EXCEPT !.ret = AttributeValueResponseInfo(c.switch_id)]
         ELSE [c EXCEPT !.ret = AttributeValueResponseInfo(<<"N","A">>)]
    ELSE Raise(c, LayerOneDriverException("GetAttributeValue command is not supported",
                                          NoText, NoText))

\* get_attribute_value(cs_address, attribute_name)
get_attribute_value(c, cs_address, attribute_name) ==
    IF attribute_name = "Serial Number"
    THEN IF SplitCount(cs_address) = 1
         THEN [c EXCEPT !.ret = AttributeValueResponseInfo(c.switch_id)]
         ELSE [c EXCEPT !.ret = AttributeValueResponseInfo(<<"N","A">>)]
    ELSE Raise(c, LayerOneDriverException("GetAttributeValue command is not supported",
                                          NoText, NoText))

\* A faulty set_attribute_value: it opens a session as its docstring example
\* does, before it gives up.
set_attribute_value_session(c) ==
    Let(enter_mode(c, "config"), LAMBDA e :
        IF Ok(e) THEN with_exit(Raise(e, NotImplementedError), c.mode) ELSE e)

\* set_attribute_value(cs_address, attribute_name, attribute_value)
set_attribute_value(c) == Raise(c, NotImplementedError)

\* set_speed_manual(src_port, dst_port, speed, duplex)
set_speed_manual(c) == Raise(c, NotImplementedError)

(***************************************************************************)
(* Calls                                                                   *)
(***************************************************************************)
Args(src, dsts, name) == [src |-> src, dsts |-> dsts, name |-> name]
NoArgs == Args(NoText, <<>>, "")

\* The operation named op, run on context c.
Handler(op, a, c) ==
    CASE op = "login" -> login(c)
      [] op = "get_state_id" -> get_state_id(c)
      [] op = "set_state_id" -> set_state_id(c, a.name)
      [] op = "map_bidi" -> map_bidi(c, a.src, a.dsts[1])
      [] op = "map_uni" -> map_uni(c, a.src, a.dsts)
      [] op = "map_tap" -> map_tap(c, a.src, a.dsts)
      [] op = "map_clear" -> map_clear(c, a.dsts)
      [] op = "map_clear_to" -> map_clear_to(c, a.src, a.dsts)
      [] op = "get_resource_description" -> get_resource_description(c, a.src)
      [] op = "get_attribute_value" -> get_attribute_value(c, a.src, a.name)
      [] op = "set_attribute_value" -> set_attribute_value(c)
      [] op = "set_speed_manual" -> set_speed_manual(c)

\* The most commands a call of op can send.
NCmds(op, a) ==
    CASE op \in {"login", "map_bidi"} -> 1
      [] op \in {"map_uni", "map_tap"} -> Len(a.dsts)
      [] op = "map_clear" -> 6 * Len(a.dsts)
      [] op = "map_clear_to" -> 4 * Len(a.dsts)
      [] op = "get_resource_description" -> 4
      [] OTHER -> 0

\* The serial texts the device may print during a call of op.
SerialChoices(op) ==
    IF op \in {"login", "get_resource_description"} THEN SerialTexts ELSE {SerialTextOne}

DeviceState == [patches |-> patches, taps |-> taps]
NoDevice == [patches |-> {}, taps |-> {}]

\* The context a call starts in.
Begin(f, st) ==
    [patches |-> patches, taps |-> taps, mode |-> mode, cli |-> cli,
     switch_id |-> switch_id, log |-> <<>>, sent |-> 0, exc |-> NoExc,
     reply |-> NoText, value |-> <<>>, ret |-> NoRet, fault |-> f, serialText |-> st]

NoCall ==
    [op |-> "", args |-> NoArgs, ret |-> NoRet, exc |-> NoExc, log |-> <<>>,
     pre |-> NoDevice, preMode |-> "default", preId |-> PyNone, preCli |-> FALSE,
     clean |-> TRUE,
     seq |-> "first", prevOk |-> FALSE, prevClean |-> FALSE, prevPre |-> NoDevice]

\* One call of op(a), the device behaving as f says. seq tells how the call
\* follows the one before: "first" (after the caller took the answer),
\* "repeat" (the same call again), "after_bidi" (map_clear_to after map_bidi).
Call(op, a, f, st, seq) ==
    \E c \in {Handler(op, a, c0) : c0 \in {Begin(f, st)}} :
       /\ Cardinality(c.patches) + Cardinality(c.taps) <= MaxRel
       /\ patches' = c.patches
       /\ taps' = c.taps
       /\ mode' = c.mode
       /\ cli' = c.cli
       /\ switch_id' = c.switch_id
       /\ pc' = "done"
       /\ login_reply' = IF op = "login" /\ Ok(c) THEN c.reply ELSE login_reply
       /\ UNCHANGED probe
       /\ last' = [op |-> op, args |-> a, ret |-> c.ret, exc |-> c.exc,
                   log |-> c.log, pre |-> DeviceState, preMode |-> mode,
                   preId |-> switch_id, preCli |-> cli,
                   clean |-> (f.at = 0 \/ f.at > c.sent),
                   seq |-> seq,
                   prevOk |-> (seq # "first" /\ last.exc.kind = "none"),
                   prevClean |-> (seq # "first" /\ last.clean),
                   prevPre |-> IF seq = "first" THEN NoDevice ELSE last.pre]

Login ==
    /\ pc = "idle"
    /\ \E st \in SerialTexts, f \in Faults(1) : Call("login", NoArgs, f, st, "first")

GetStateId ==
    /\ pc = "idle"
    /\ Call("get_state_id", NoArgs, NoFault, SerialTextOne, "first")

SetStateId ==
    /\ pc = "idle"
    /\ \E id \in {"1", "x"} :
          Call("set_state_id", Args(NoText, <<>>, id), NoFault, SerialTextOne, "first")

MapBidi ==
    /\ pc = "idle"
    /\ \E src \in PortAddrs, dst \in PortAddrs, f \in Faults(1) :
          Call("map_bidi", Args(src, <<dst>>, ""), f, SerialTextOne, "first")

MapUni ==
    /\ pc = "idle"
    /\ \E src \in PortAddrs, dsts \in AddrLists :
          \E f \in Faults(Len(dsts)) :
             Call("map_uni", Args(src, dsts, ""), f, SerialTextOne, "first")

MapTap ==
    /\ pc = "idle"
    /\ \E src \in PortAddrs, dsts \in AddrLists :
          \E f \in Faults(Len(dsts)) :
             Call("map_tap", Args(src, dsts, ""), f, SerialTextOne, "first")

MapClear ==
    /\ pc = "idle"
    /\ \E ports \in AddrLists :
          \E f \in Faults(6 * Len(ports)) :
             Call("map_clear", Args(NoText, ports, ""), f, SerialTextOne, "first")

MapClearTo ==
    /\ pc = "idle"
    /\ \E src \in PortAddrs, dsts \in AddrLists :
          \E f \in Faults(4 * Len(dsts)) :
             Call("map_clear_to", Args(src, dsts, ""), f, SerialTextOne, "first")

GetResourceDescription ==
    /\ pc = "idle"
    /\ \E st \in SerialTexts, f \in Faults(4) :
          Call("get_resource_description", Args(AddrChassis, <<>>, ""), f, st, "first")

GetAttributeValue ==
    /\ pc = "idle"
    /\ \E addr \in AttrAddrs, name \in AttrNames :
          Call("get_attribute_value", Args(addr, <<>>, name), NoFault, SerialTextOne,
               "first")

SetAttributeValue ==
    /\ pc = "idle"
    /\ \E addr \in AttrAddrs, name \in AttrNames :
          Call("set_attribute_value", Args(addr, <<>>, name), NoFault, SerialTextOne,
               "first")

SetSpeedManual ==
    /\ pc = "idle"
    /\ \E src \in PortAddrs, dst \in PortAddrs :
          Call("set_speed_manual", Args(src, <<dst>>, ""), NoFault, SerialTextOne,
               "first")

\* The caller makes the call it has just made once more, with the same
\* arguments, and the device answers every command of it.
Repeat ==
    /\ pc = "done"
    /\ last.seq = "first"
    /\ \E st \in SerialChoices(last.op) :
          Call(last.op, last.args, NoFault, st, "repeat")

\* The caller follows map_bidi(a, b) with map_clear_to(a, [b]), and the device
\* answers every command of it.
ClearAfterBidi ==
    /\ pc = "done"
    /\ last.seq = "first"
    /\ last.op = "map_bidi"
    /\ Call("map_clear_to", last.args, NoFault, SerialTextOne, "after_bidi")

\* The caller takes the answer; the driver keeps nothing of the call.
Return ==
    /\ pc = "done"
    /\ pc' = "idle"
    /\ last' = NoCall
    /\ UNCHANGED <<patches, taps, mode, cli, switch_id, login_reply, probe>>

\* No function is being applied.
NoProbe == [fn |-> "", arg |-> NoText, done |-> TRUE, out |-> NoText]

\* A driver just constructed, and the device with no patch and no tap.
InitDriver ==
    /\ patches = {}
    /\ taps = {}
    /\ mode = "default"
    /\ cli = FALSE
    /\ switch_id = PyNone
    /\ pc = "idle"
    /\ last = NoCall
    /\ login_reply = PyNone

Init ==
    /\ InitDriver
    /\ probe = NoProbe

Next ==
    \/ Login
    \/ GetStateId
    \/ SetStateId
    \/ MapBidi
    \/ MapUni
    \/ MapTap
    \/ MapClear
    \/ MapClearTo
    \/ GetResourceDescription
    \/ GetAttributeValue
    \/ SetAttributeValue
    \/ SetSpeedManual
    \/ Repeat
    \/ ClearAfterBidi
    \/ Return

Spec == Init /\ [][Next]_vars

(***************************************************************************)
(* Properties                                                              *)
(***************************************************************************)
\* The commands the call that has just ended sent, in order.
Sends == SelectSeq(last.log, LAMBDA e : e.ev = "send")

IsRaised(kind) == last.exc.kind = kind
Returned == last.exc.kind = "none"

\* The device holds a patch or a tap between the interfaces x and y in dev.
Related(dev, x, y) ==
    \/ <<x, y>> \in dev.patches \/ <<y, x>> \in dev.patches
    \/ <<x, y>> \in dev.taps \/ <<y, x>> \in dev.taps

\* The device holds a patch or a tap with interface x as an end.
TakesPart(dev, x) ==
    \E p \in dev.patches \cup dev.taps : p[1] = x \/ p[2] = x

\* The reply pattern of the command's family accepts the reply.
Accepted(cmd, reply) ==
    CASE cmd.verb = VerbPatch -> SearchPatchCreated(reply)
      [] cmd.verb = VerbTap -> SearchAddedInputTap(reply)
      [] cmd.verb = VerbNoPatch -> SearchPatchRemoved(reply)
      [] cmd.verb = VerbNoTap -> SearchTapRemoved(reply)
      [] OTHER -> TRUE

\* C1: map_bidi(a, b) followed at once by map_clear_to(a, [b]), on a logged-in
\* driver and a device that held no patch and no tap between the two
\* interfaces and answers every command: both calls return without error and
\* the device holds no patch and no tap between the converted names of a and
\* b, in either order.
C1_BidiThenClearToLeavesNothing ==
    ( /\ pc = "done"
      /\ last.seq = "after_bidi"
      /\ last.prevClean
      /\ last.preCli
      /\ ~Related(last.prevPre, convert_port_address(last.args.src),
                  convert_port_address(last.args.dsts[1])) )
    => /\ last.prevOk
       /\ Returned
       /\ ~Related(DeviceState, convert_port_address(last.args.src),
                   convert_port_address(last.args.dsts[1]))

C1_Witness ==
    /\ pc = "done"
    /\ last.seq = "after_bidi"
    /\ last.prevClean
    /\ last.prevOk
    /\ last.args.src # last.args.dsts[1]
    /\ ~Related(last.prevPre, convert_port_address(last.args.src),
                convert_port_address(last.args.dsts[1]))
    /\ <<convert_port_address(last.args.src), convert_port_address(last.args.dsts[1])>>
          \in last.pre.patches
    /\ Returned

\* C2: whenever map_clear([p]) returns without error, the device holds no
\* patch and no tap that has the converted name of p as an end (the removal
\* commands name the peer the device's tables record for p).
C2_ClearRemovesThePortsMappings ==
    ( /\ pc = "done"
      /\ last.op = "map_clear"
      /\ Len(last.args.dsts) = 1
      /\ Returned )
    => ~TakesPart(DeviceState, convert_port_address(last.args.dsts[1]))

\* C3: map_clear_to(src, dsts) made a second time with the same arguments
\* raises no error; when the first call had returned, every removal of the
\* second is answered "not found".
C3_ClearToTwice ==
    ( /\ pc = "done"
      /\ last.op = "map_clear_to"
      /\ last.seq = "repeat"
      /\ last.preCli )
    => /\ Returned
       /\ last.prevOk =>
            \A i \in 1..Len(Sends) :
               Sends[i].reply \in {ReplyPatchNotFound, ReplyTapNotFound}

C3_Witness ==
    /\ pc = "done"
    /\ last.op = "map_clear_to"
    /\ last.seq = "repeat"
    /\ last.prevOk
    /\ Len(last.args.dsts) >= 1
    /\ Related(last.prevPre, convert_port_address(last.args.src),
               convert_port_address(last.args.dsts[1]))
    /\ Len(Sends) = 4 * Len(last.args.dsts)
    /\ Returned

\* C4: map_clear(ports) made a second time with the same arguments raises no
\* error and leaves the device's patches and taps as the first call left
\* them, whether or not the ports take part in a patch or a tap.
C4_ClearTwice ==
    ( /\ pc = "done"
      /\ last.op = "map_clear"
      /\ last.seq = "repeat"
      /\ last.preCli )
    => /\ Returned
       /\ DeviceState = last.pre

C4_Witness ==
    /\ pc = "done"
    /\ last.op = "map_clear"
    /\ last.seq = "repeat"
    /\ last.prevOk
    /\ Len(last.args.dsts) >= 1
    /\ TakesPart(last.prevPre, convert_port_address(last.args.dsts[1]))
    /\ Len(Sends) = 6 * Len(last.args.dsts)
    /\ Returned

\* The tap command map_uni sends for the i-th destination.
TapCmd(i) ==
    Cmd(VerbTap, convert_port_address(last.args.src),
        convert_port_address(last.args.dsts[i]))

\* C5: map_uni(src, [d1..dn]) sends its tap commands in list order; when the
\* reply for dk is not accepted the call raises at dk naming src and dk, the
\* taps made for d1..d(k-1) stay on the device and none is made for dk..dn.
C5_MapUniStopsAtFailure ==
    ( /\ pc = "done"
      /\ last.op = "map_uni"
      /\ last.preCli )
    => /\ Len(Sends) <= Len(last.args.dsts)
       /\ \A i \in 1..Len(Sends) : Sends[i].cmd = TapCmd(i)
       /\ \A i \in 1..Len(Sends) :
             (Sends[i].reply # NoReply /\ ~SearchAddedInputTap(Sends[i].reply))
             => /\ i = Len(Sends)
                /\ last.exc = LayerOneDriverException(
                                  "Failed to create mapping between",
                                  TapCmd(i).a, TapCmd(i).b)
       /\ ~Returned =>
             /\ taps = last.pre.taps \cup
                          {<<TapCmd(i).a, TapCmd(i).b>> : i \in 1..(Len(Sends) - 1)}
             /\ patches = last.pre.patches
       /\ Returned =>
             /\ Len(Sends) = Len(last.args.dsts)
             /\ taps = last.pre.taps \cup
                          {<<TapCmd(i).a, TapCmd(i).b>> : i \in 1..Len(Sends)}

C5_Witness ==
    /\ pc = "done"
    /\ last.op = "map_uni"
    /\ IsRaised("LayerOneDriverException")
    /\ Len(last.args.dsts) = 2
    /\ last.args.dsts[1] # last.args.dsts[2]
    /\ Len(Sends) = 2
    /\ <<TapCmd(1).a, TapCmd(1).b>> \in taps \ last.pre.taps
    /\ <<TapCmd(2).a, TapCmd(2).b>> \notin taps

\* C6: when a call ends, by return or by a raised error at any step, the
\* session is in the mode it was in before the call, every mode entered has
\* been left, and the device is never left in configuration mode.
C6_ModeRestored ==
    /\ mode = "default"
    /\ pc = "done" =>
         /\ mode = last.preMode
         /\ Cardinality({i \in 1..Len(last.log) : last.log[i].ev = "enter"})
              = Cardinality({i \in 1..Len(last.log) : last.log[i].ev = "exit"})
         /\ last.log # <<>> => last.log[Len(last.log)].ev = "exit"

C6_Witness ==
    /\ pc = "done"
    /\ last.op = "map_clear"
    /\ IsRaised("TransportError")
    /\ Len(Sends) = 9
    /\ Sends[9].mode = "config"
    /\ mode = "default"

\* C7: map_bidi(src, dst) enters configuration mode, sends the one command
\* "patch <s> <d>" with the converted names, and leaves the mode; given a
\* reply, it returns iff the reply contains "patch created" and otherwise
\* raises the mapping-creation error naming s and d.
C7_MapBidi ==
    ( /\ pc = "done"
      /\ last.op = "map_bidi"
      /\ last.preCli )
    => /\ Len(last.log) = 3
       /\ last.log[1].ev = "enter" /\ last.log[1].mode = "config"
       /\ last.log[2] = Event("send", "config",
                              Cmd(VerbPatch, convert_port_address(last.args.src),
                                  convert_port_address(last.args.dsts[1])),
                              last.log[2].reply)
       /\ last.log[3].ev = "exit"
       /\ last.log[2].reply # NoReply =>
            /\ Returned <=> SearchPatchCreated(last.log[2].reply)
            /\ ~Returned =>
                 last.exc = LayerOneDriverException(
                                "Failed to create mapping between",
                                convert_port_address(last.args.src),
                                convert_port_address(last.args.dsts[1]))

C7_Witness ==
    /\ pc = "done"
    /\ last.op = "map_bidi"
    /\ last.args.src # last.args.dsts[1]
    /\ IsRaised("LayerOneDriverException")
    /\ last.log[2].reply = ReplyInvalid
    /\ patches = last.pre.patches

\* The commands of one destination of a call, in the order its steps send them.
StepCmds(op, s, d) ==
    CASE op = "map_bidi" -> <<Cmd(VerbPatch, s, d)>>
      [] op \in {"map_uni", "map_tap"} -> <<Cmd(VerbTap, s, d)>>
      [] op = "map_clear_to" -> <<Cmd(VerbNoPatch, s, d), Cmd(VerbNoPatch, d, s),
                                  Cmd(VerbNoTap, s, d), Cmd(VerbNoTap, d, s)>>
      [] OTHER -> <<>>

\* The i-th command of a call whose every step succeeds.
StepCmdAt(op, a, i) ==
    LET n == Len(StepCmds(op, NameA, NameA))
        d == a.dsts[((i - 1) \div n) + 1]
    IN  StepCmds(op, convert_port_address(a.src), convert_port_address(d))[((i - 1) % n) + 1]

\* C8: no call of map_bidi, map_uni, map_tap, map_clear or map_clear_to sends
\* a command more than once for a step (what it sends is a prefix of its
\* steps' commands), and once a reply is not accepted (or none comes) no
\* further command is sent in the call, which ends by raising.
C8_NoRetryNoRollback ==
    ( /\ pc = "done"
      /\ last.op \in {"map_bidi", "map_uni", "map_tap", "map_clear", "map_clear_to"} )
    => /\ Len(Sends) <= NCmds(last.op, last.args)
       /\ last.op # "map_clear" =>
             \A i \in 1..Len(Sends) : Sends[i].cmd = StepCmdAt(last.op, last.args, i)
       /\ \A i \in 1..Len(Sends) :
             (Sends[i].reply = NoReply \/ ~Accepted(Sends[i].cmd, Sends[i].reply))
             => /\ i = Len(Sends)
                /\ ~Returned

C8_Witness ==
    /\ pc = "done"
    /\ last.op = "map_clear_to"
    /\ Len(last.args.dsts) = 2
    /\ Len(Sends) = 2
    /\ Sends[1].reply = ReplyPatchDeleted
    /\ Sends[2].reply = ReplyInvalid
    /\ IsRaised("LayerOneDriverException")
    /\ patches # last.pre.patches

\* The serial the driver holds after the logins so far.
SerialAtLogin == IF login_reply = PyNone THEN PyNone ELSE Stripped(login_reply)

\* C9: get_attribute_value(addr, name) after a login: "Serial Number" of a
\* one-segment address gives the serial cached at login, of a longer address
\* "NA"; any other name raises; no command is sent.
C9_GetAttributeValue ==
    ( /\ pc = "done"
      /\ last.op = "get_attribute_value"
      /\ login_reply # PyNone )
    => /\ last.log = <<>>
       /\ DeviceState = last.pre
       /\ (last.args.name = "Serial Number" /\ SplitCount(last.args.src) = 1)
            => /\ Returned
               /\ last.ret = AttributeValueResponseInfo(last.preId)
               /\ last.ret.text = SerialAtLogin
       /\ (last.args.name = "Serial Number" /\ SplitCount(last.args.src) > 1)
            => /\ Returned
               /\ last.ret = AttributeValueResponseInfo(<<"N","A">>)
       /\ last.args.name # "Serial Number"
            => /\ IsRaised("LayerOneDriverException")
               /\ last.exc.text = "GetAttributeValue command is not supported"

C9_Witness ==
    /\ pc = "done"
    /\ last.op = "get_attribute_value"
    /\ last.args.name = "Serial Number"
    /\ last.args.src = AddrChassis
    /\ last.ret.text = <<"F","O","C","1">>
    /\ login_reply = SerialTextOne

\* C10 as stated: the cached serial is the only field of the driver that a
\* call changes for the calls after it, and it changes only in login.
C10_SwitchIdentityIsTheOnlyCarriedState ==
    /\ switch_id = SerialAtLogin
    /\ pc = "done" => cli = last.preCli
    /\ (pc = "done" /\ last.op # "login") => switch_id = last.preId

\* C10, amended: the driver carries the CLI handler and the cached serial
\* between calls; both change only in login. Every other operation,
\* get_resource_description included, leaves them as it found them; a login
\* whose serial read fails replaces the handler and keeps the old serial, so
\* the cached serial is the one read by the latest login that read one.
C10_IdentityOnlyByLogin ==
    /\ switch_id = SerialAtLogin
    /\ (pc = "done" /\ last.op # "login") =>
          /\ switch_id = last.preId
          /\ cli = last.preCli
    /\ (pc = "done" /\ last.op = "login") =>
          /\ cli
          /\ ~Returned => switch_id = last.preId

C10_Witness ==
    /\ pc = "done"
    /\ last.op = "get_resource_description"
    /\ Returned
    /\ switch_id = <<"F","O","C","1">>
    /\ last.ret.text = <<"X","2">>

\* What went wrong on the channel during the call that has just ended, as its
\* exchange shows it.
FaultSeen ==
    IF \E i \in 1..Len(Sends) : Sends[i].reply = NoReply
    THEN [at |-> CHOOSE i \in 1..Len(Sends) : Sends[i].reply = NoReply, kind |-> "transport"]
    ELSE IF \E i \in 1..Len(Sends) : Sends[i].reply = ReplyInvalid
    THEN [at |-> CHOOSE i \in 1..Len(Sends) : Sends[i].reply = ReplyInvalid, kind |-> "invalid"]
    ELSE NoFault

\* The context the call that has just ended started in.
StartOfLast ==
    [patches |-> last.pre.patches, taps |-> last.pre.taps, mode |-> last.preMode,
     cli |-> last.preCli, switch_id |-> last.preId, log |-> <<>>, sent |-> 0,
     exc |-> NoExc, reply |-> NoText, value |-> <<>>, ret |-> NoRet,
     fault |-> FaultSeen, serialText |-> SerialTextOne]

\* C14: map_tap(src, dsts) does what map_uni(src, dsts) does from the same
\* driver, session and device state and with the same answers: the same
\* exchange (modes entered and left, commands, replies), the same device state
\* after it, and the same return or raise.
C14_MapTapIsMapUni ==
    ( /\ pc = "done"
      /\ last.op = "map_tap" )
    => \E u \in {map_uni(StartOfLast, last.args.src, last.args.dsts)} :
          /\ u.log = last.log
          /\ u.exc = last.exc
          /\ u.ret = last.ret
          /\ u.patches = patches
          /\ u.taps = taps
          /\ u.mode = mode
          /\ u.switch_id = switch_id

C14_Witness ==
    /\ pc = "done"
    /\ last.op = "map_tap"
    /\ Len(last.args.dsts) = 2
    /\ Len(Sends) = 2
    /\ Sends[1].reply = ReplyTapAdded
    /\ Sends[2].reply = ReplyInvalid
    /\ IsRaised("LayerOneDriverException")
    /\ taps # last.pre.taps

\* The call that has just ended touched neither the session nor the device
\* nor the driver's fields.
LastTouchedNothing ==
    /\ last.log = <<>>
    /\ DeviceState = last.pre
    /\ mode = last.preMode
    /\ cli = last.preCli
    /\ switch_id = last.preId

\* C15: get_state_id returns -1 whatever calls came before it, set_state_id
\* returns nothing; neither sends a command, enters a session mode or changes
\* a field of the driver, and both return before login too.
C15_StateIdUnused ==
    /\ (pc = "done" /\ last.op = "get_state_id") =>
          /\ Returned
          /\ last.ret = GetStateIdResponseInfo(-1)
          /\ LastTouchedNothing
    /\ (pc = "done" /\ last.op = "set_state_id") =>
          /\ Returned
          /\ last.ret = NoRet
          /\ LastTouchedNothing

C15_Witness ==
    /\ pc = "done"
    /\ last.op = "get_state_id"
    /\ ~cli
    /\ last.ret.num = -1
    /\ Returned

\* C18: set_attribute_value and set_speed_manual raise NotImplementedError
\* for every argument, before and after login, and enter no session mode,
\* send no command and change neither the cached serial nor the device.
C18_UnsupportedSetters ==
    ( /\ pc = "done"
      /\ last.op \in {"set_attribute_value", "set_speed_manual"} )
    => /\ last.exc = NotImplementedError
       /\ last.ret = NoRet
       /\ LastTouchedNothing

C18_Witness ==
    /\ pc = "done"
    /\ last.op = "set_attribute_value"
    /\ ~cli
    /\ IsRaised("NotImplementedError")

\* What each step of the call that has just ended was: "enter", "send", "exit".
LogShape == [i \in 1..Len(last.log) |-> last.log[i].ev]

\* n times: config mode entered, k commands sent, config mode left.
RECURSIVE BlockPerDestination(_, _)
BlockPerDestination(n, k) ==
    IF n = 0 THEN <<>>
    ELSE <<"enter">> \o [i \in 1..k |-> "send"] \o <<"exit">> \o BlockPerDestination(n - 1, k)

\* Once: config mode entered, n * k commands sent, config mode left.
BlockPerCall(n, k) == <<"enter">> \o [i \in 1..(n * k) |-> "send"] \o <<"exit">>

\* The commands of a call of map_uni or map_clear_to that did not fail are
\* those of its destinations, in order and in configuration mode.
AllStepsSent ==
    /\ Len(Sends) = NCmds(last.op, last.args)
    /\ \A i \in 1..Len(Sends) :
          /\ Sends[i].cmd = StepCmdAt(last.op, last.args, i)
          /\ Sends[i].mode = "config"

\* C19 as stated: a call of map_uni or map_clear_to over d1..dn that does not
\* fail enters and leaves config mode n times, each destination's commands
\* between its own enter and exit, and never enters it for an empty list.
C19_ConfigModePerDestination ==
    ( /\ pc = "done"
      /\ last.op \in {"map_uni", "map_clear_to"}
      /\ last.preCli
      /\ Returned )
    => /\ LogShape = BlockPerDestination(Len(last.args.dsts),
                                         Len(StepCmds(last.op, NameA, NameA)))
       /\ AllStepsSent

\* C19, amended: a call of map_uni or map_clear_to over d1..dn that does not
\* fail enters config mode once, sends the commands of d1..dn in order (one
\* "tap s d" each for map_uni; "no patch s d", "no patch d s", "no tap s d",
\* "no tap d s" each for map_clear_to) and leaves config mode once; with an
\* empty list it enters and leaves config mode once and sends nothing.
C19_ConfigModeOncePerCall ==
    ( /\ pc = "done"
      /\ last.op \in {"map_uni", "map_clear_to"}
      /\ last.preCli
      /\ Returned )
    => /\ LogShape = BlockPerCall(Len(last.args.dsts),
                                  Len(StepCmds(last.op, NameA, NameA)))
       /\ last.log[1].mode = "config"
       /\ AllStepsSent

C19_Witness ==
    /\ pc = "done"
    /\ last.op = "map_clear_to"
    /\ Returned
    /\ Len(last.args.dsts) = 2
    /\ Len(last.log) = 10
    /\ patches # last.pre.patches

\* The four reads of a discovery, in the order of the code.
ReadCmds == <<Cmd(VerbSerial, NoText, NoText), Cmd(VerbIfaces, NoText, NoText),
              Cmd(VerbShowBidi, NoText, NoText), Cmd(VerbShowTap, NoText, NoText)>>

\* The commands of the last call are the first ones of ReadCmds, in order.
SendsLeadReadCmds ==
    /\ Len(Sends) <= Len(ReadCmds)
    /\ \A i \in 1..Len(Sends) : Sends[i].cmd = ReadCmds[i]

\* C20 as stated: every call of get_resource_description sends the four read
\* commands, in that order and each exactly once, and nothing else, and the
\* device's patches and taps are after the call what they were before it.
C20_FourReadsInEveryRun ==
    (pc = "done" /\ last.op = "get_resource_description") =>
       /\ SendsLeadReadCmds
       /\ Len(Sends) = Len(ReadCmds)
       /\ DeviceState = last.pre

\* C20, amended: get_resource_description sends only the four read commands,
\* in that order and each at most once, and never a patch, tap, no patch or
\* no tap command; a call that returns has sent each exactly once, a call
\* that raises has sent the first of them up to the one that failed (none
\* before a login); the device's patches and taps are after the call what
\* they were before it.
C20_ReadOnlyDiscovery ==
    (pc = "done" /\ last.op = "get_resource_description") =>
       /\ SendsLeadReadCmds
       /\ Returned => Len(Sends) = Len(ReadCmds)
       /\ \A i \in 1..Len(Sends) :
             Sends[i].cmd.verb \notin {VerbPatch, VerbTap, VerbNoPatch, VerbNoTap}
       /\ DeviceState = last.pre

\* A discovery that returns, on a device that holds a mapping.
C20_Witness ==
    /\ pc = "done"
    /\ last.op = "get_resource_description"
    /\ Returned
    /\ Len(Sends) = 4
    /\ last.pre.patches \cup last.pre.taps # {}

\* C21: login opens one enable-mode session and sends one command in it, the
\* serial-number read; when the read is answered the label-stripped answer is
\* the cached serial and login returns None; when the read fails on the
\* channel that error is what login raises, and the cached serial is the one
\* from before this login (None on a first login, the earlier serial on a
\* re-login); nothing else makes login raise, and the session is back in the
\* mode it had.
C21_Login ==
    (pc = "done" /\ last.op = "login") =>
       /\ LogShape = <<"enter", "send", "exit">>
       /\ last.log[1].mode = "enable"
       /\ last.log[2].mode = "enable"
       /\ last.log[2].cmd = Cmd(VerbSerial, NoText, NoText)
       /\ mode = last.preMode
       /\ DeviceState = last.pre
       /\ Returned <=> last.log[2].reply # NoReply
       /\ Returned =>
             /\ switch_id = Stripped(last.log[2].reply)
             /\ last.ret = NoRet
       /\ ~Returned =>
             /\ last.exc = TransportError
             /\ switch_id = last.preId

\* A re-login whose read fails: the serial of the earlier login is kept.
C21_Witness ==
    /\ pc = "done"
    /\ last.op = "login"
    /\ last.exc = TransportError
    /\ last.preId = <<"F","O","C","1">>
    /\ switch_id = <<"F","O","C","1">>

(***************************************************************************)
(* _convert_port_address applied to every short address                    *)
(***************************************************************************)
\* Longest address converted.
MaxAddrLen == 5

\* The characters of the addresses: a letter, a digit and the two separators.
AddrChars == {"h", "1", "/", "-"}
Addresses == UNION {[1..n -> AddrChars] : n \in 0..MaxAddrLen}

ConvertInit ==
    /\ InitDriver
    /\ probe \in {[fn |-> "convert", arg |-> a, done |-> FALSE, out |-> NoText] :
                     a \in Addresses}

\* self._convert_port_address(port)
ConvertPortAddress ==
    /\ probe.fn = "convert"
    /\ ~probe.done
    /\ probe' = [probe EXCEPT !.done = TRUE, !.out = convert_port_address(probe.arg)]
    /\ UNCHANGED <<patches, taps, mode, cli, switch_id, pc, last, login_reply>>

ConvertNext == ConvertPortAddress

ConvertSpec == ConvertInit /\ [][ConvertNext]_vars

\* Where the last "/" of an address is (0: there is none).
LastSlashAt(a) == Max({0} \cup {i \in 1..Len(a) : a[i] = "/"})

\* The address from after its last "/" to its end.
AfterLastSlash(a) == SubSeq(a, LastSlashAt(a) + 1, Len(a))

\* Every "/" of a text written as "-".
SlashToDash(s) == [i \in 1..Len(s) |-> IF s[i] = "/" THEN "-" ELSE s[i]]

\* Prefixes put before "/<tail>": host, host and slot, nothing.
HostPrefixes == {<<"h">>, <<"1", "/", "h">>, <<>>, <<"h", "-", "1">>}

\* C16: the converted name of an address is its part after the last "/"
\* (the whole address if it has none) with every "-" written as "/": it is
\* as long as that part, differs from it only where that part has "-", is
\* the same under any host/slot prefix, and with "-" put back for "/" it is
\* that part again.
C16_ConvertPortAddress ==
    ( /\ probe.fn = "convert"
      /\ probe.done )
    => /\ Len(probe.out) = Len(AfterLastSlash(probe.arg))
       /\ \A i \in 1..Len(probe.out) :
             probe.out[i] = IF AfterLastSlash(probe.arg)[i] = "-" THEN "/" ELSE AfterLastSlash(probe.arg)[i]
       /\ \A h \in HostPrefixes :
             convert_port_address(h \o <<"/">> \o AfterLastSlash(probe.arg)) = probe.out
       /\ SlashToDash(probe.out) = AfterLastSlash(probe.arg)

\* "h/1-1" gives "1/1".
C16_Witness ==
    /\ probe.fn = "convert"
    /\ probe.done
    /\ probe.arg = <<"h", "/", "1", "-", "1">>
    /\ probe.out = <<"1", "/", "1">>

(***************************************************************************)
(* The create and remove steps, the device answering with a given text     *)
(***************************************************************************)
\* A reply is made of a first phrase, a gap and a second phrase, with text
\* before and after: <pre><head><gap><tail><post>.
ReplyHeads == {<<"p", "a", "t", "c", "h">>,
               <<"P", "A", "T", "C", "H">>,
               <<"T", "a", "p">>,
               <<"t", "a", "p">>,
               <<"R", "e", "m", "o", "v", "e", "d">>,
               <<"r", "e", "m", "o", "v", "e", "d", " ", "i", "n", "p", "u", "t">>,
               <<"R", "e", "m", "o", "v", "e", "d", " ", "o", "u", "t", "p", "u", "t">>,
               <<"r", "e", "m", "o", "v", "e", "d", " ", "i", "n", "p", "u", "t", "o", "u", "t", "p", "u", "t">>,
               <<"a", "d", "d", "e", "d", " ", "i", "n", "p", "u", "t">>,
               <<"A", "d", "d", "e", "d", " ", "I", "n", "p", "u", "t">>,
               <<>>}
ReplyGaps == {<<>>,
              <<" ">>,
              <<" ", " ">>,
              <<"\n">>}
ReplyTails == {<<"c", "r", "e", "a", "t", "e", "d">>,
               <<"C", "r", "e", "a", "t", "e", "d">>,
               <<"d", "e", "l", "e", "t", "e", "d">>,
               <<"D", "E", "L", "E", "T", "E", "D">>,
               <<"n", "o", "t", " ", "f", "o", "u", "n", "d">>,
               <<"N", "o", "t", " ", "F", "o", "u", "n", "d">>,
               <<"t", "a", "p">>,
               <<"T", "A", "P">>,
               <<"c", "r", "e", "a", "t", "e">>,
               <<>>}
ReplyPres == {<<>>, <<"%", " ">>}
ReplyPosts == {<<>>, <<"!">>}
ReplyParts ==
    [pre : ReplyPres, head : ReplyHeads, gap : ReplyGaps, tail : ReplyTails,
     post : ReplyPosts]

ReplyText(p) == p.pre \o p.head \o p.gap \o p.tail \o p.post

ClassifyInit ==
    /\ InitDriver
    /\ probe \in {[fn |-> "classify", arg |-> p, done |-> FALSE, out |-> NoText] :
                     p \in ReplyParts}

\* A logged-in driver whose device answers the n-th command with texts[n].
Answering(texts) == [Begin(Answers(texts), SerialTextOne) EXCEPT !.cli = TRUE]

\* map_bidi, map_uni and the two removals, each answered with the reply.
ClassifyReply ==
    /\ probe.fn = "classify"
    /\ ~probe.done
    /\ \E c \in {Answering(<<ReplyText(probe.arg)>>)} :
          probe' = [probe EXCEPT
                       !.done = TRUE,
                       !.out = [createBidi |-> map_bidi(c, AddrA, AddrB).exc,
                                createTap |-> map_uni(c, AddrA, <<AddrB>>).exc,
                                removeBidi |-> remove_bidi_mapping(c, NameA, NameB).exc,
                                removeTap |-> remove_tap_mapping(c, NameA, NameB).exc]]
    /\ UNCHANGED <<patches, taps, mode, cli, switch_id, pc, last, login_reply>>

ClassifyNext == ClassifyReply

ClassifySpec == ClassifyInit /\ [][ClassifyNext]_vars

\* A phrase in lower case.
Lower(w) == [i \in 1..Len(w) |-> Fold(w[i])]

HeadIs(w) == Lower(probe.arg.head) = w
TailIs(w) == Lower(probe.arg.tail) = w
OneSpace == probe.arg.gap = <<" ">>

\* The reply has "removed", then "output"/"input" any number of times, then "tap".
RemovedTapPhrase ==
    /\ \/ HeadIs(<<"r","e","m","o","v","e","d">>)
       \/ HeadIs(<<"r","e","m","o","v","e","d"," ","i","n","p","u","t">>)
       \/ HeadIs(<<"r","e","m","o","v","e","d"," ","o","u","t","p","u","t">>)
       \/ HeadIs(<<"r","e","m","o","v","e","d"," ","i","n","p","u","t","o","u","t","p","u","t">>)
    /\ TailIs(<<"t","a","p">>)

\* The reply has "patch", then "deleted" or "not found".
PatchGonePhrase ==
    /\ HeadIs(<<"p","a","t","c","h">>)
    /\ \/ TailIs(<<"d","e","l","e","t","e","d">>)
       \/ TailIs(<<"n","o","t"," ","f","o","u","n","d">>)

TapNotFoundPhrase ==
    /\ HeadIs(<<"t","a","p">>)
    /\ OneSpace
    /\ TailIs(<<"n","o","t"," ","f","o","u","n","d">>)

\* The two create steps: the reply decides alone, ignoring case; create-bidi
\* succeeds iff it contains "patch created", create-tap iff it contains
\* "added input tap"; otherwise the step raises.
CreateStepsClassified ==
    /\ (probe.out.createBidi = NoExc)
          <=> (HeadIs(<<"p","a","t","c","h">>) /\ OneSpace
               /\ TailIs(<<"c","r","e","a","t","e","d">>))
    /\ probe.out.createBidi \in
          {NoExc, LayerOneDriverException("Failed to create mapping between", NameA, NameB)}
    /\ (probe.out.createTap = NoExc)
          <=> (HeadIs(<<"a","d","d","e","d"," ","i","n","p","u","t">>) /\ OneSpace
               /\ TailIs(<<"t","a","p">>))
    /\ probe.out.createTap \in
          {NoExc, LayerOneDriverException("Failed to create mapping between", NameA, NameB)}

\* C17 as stated: the remove steps succeed iff the reply contains "patch
\* deleted" or "patch not found" (remove-bidi), "removed tap", "removed output
\* tap", "removed input tap" or "tap not found" (remove-tap), ignoring case;
\* any other reply makes the step raise.
C17_ClassifiedByPhrase ==
    ( /\ probe.fn = "classify"
      /\ probe.done )
    => /\ CreateStepsClassified
       /\ (probe.out.removeBidi = NoExc) <=> (PatchGonePhrase /\ OneSpace)
       /\ (probe.out.removeTap = NoExc) <=>
             \/ /\ RemovedTapPhrase
                /\ OneSpace
                /\ ~HeadIs(<<"r","e","m","o","v","e","d"," ","i","n","p","u","t","o","u","t","p","u","t">>)
             \/ TapNotFoundPhrase

\* C17, amended: remove-bidi succeeds iff the reply has "patch", any white
\* space or none, then "deleted" or "not found"; remove-tap iff it has
\* "removed", any white space or none, "output"/"input" any number of times,
\* any white space or none, then "tap", or it contains "tap not found"; the
\* create steps as stated; all ignoring case; any other reply, the empty one
\* too, makes the step raise its LayerOneDriverException.
C17_ClassifiedByPattern ==
    ( /\ probe.fn = "classify"
      /\ probe.done )
    => /\ CreateStepsClassified
       /\ (probe.out.removeBidi = NoExc) <=> PatchGonePhrase
       /\ probe.out.removeBidi \in
             {NoExc, LayerOneDriverException("Failed to delete bidi mapping between",
                                             NameA, NameB)}
       /\ (probe.out.removeTap = NoExc) <=> (RemovedTapPhrase \/ TapNotFoundPhrase)
       /\ probe.out.removeTap \in
             {NoExc, LayerOneDriverException("Failed to delete tap mapping between",
                                             NameA, NameB)}

\* "% PATCH CREATED!" is accepted by create-bidi and by nothing else.
C17_Witness ==
    /\ probe.fn = "classify"
    /\ probe.done
    /\ probe.arg.pre = <<"%", " ">>
    /\ probe.arg.head = <<"P","A","T","C","H">>
    /\ OneSpace
    /\ probe.arg.tail = <<"C","r","e","a","t","e","d">>
    /\ probe.out.createBidi = NoExc
    /\ probe.out.removeBidi.kind = "LayerOneDriverException"
    /\ probe.out.createTap.kind = "LayerOneDriverException"

(***************************************************************************)
(* get_resource_description applied to the reports of a device             *)
(***************************************************************************)
\* Most lines of a mapping table.
MaxLines == 2

Et1 == <<"e","t","1">>
Et2 == <<"e","t","2">>
Et99 == <<"e","t","9","9">>
Eth1 == <<"e","t","h","e","r","n","e","t","1","/","1">>
Eth2 == <<"e","t","h","e","r","n","e","t","2">>
Eth3 == <<"e","t","h","e","r","n","e","t","3">>
CapEth2 == <<"E","t","h","e","r","n","e","t","2">>

\* The interface lists: the names of their lines, in order.
ScanIfaceLists == {<<>>, <<Et1, Et2>>, <<Eth1, Eth2>>, <<Eth1, CapEth2>>, <<Eth1, Eth2, Eth3>>}

\* The entries a mapping table is made of, and the tables.
ScanPairs == {<<Et1, Et2>>, <<Eth1, Eth2>>, <<Eth1, Eth3>>, <<Eth2, Et99>>}
ScanTables == UNION {[1..n -> ScanPairs] : n \in 0..MaxLines}

\* A line of "show interface brief": name, status, transceiver, speed.
IfaceLine(name) == name \o <<" ","u","p"," ","S","F","P"," ","1","0","0","0","\n">>

\* A line of a mapping table: "<src> <dst>".
PairLine(e) == e[1] \o <<" ">> \o e[2] \o <<"\n">>

RECURSIVE IfaceLines(_)
IfaceLines(names) ==
    IF names = <<>> THEN <<>> ELSE IfaceLine(Head(names)) \o IfaceLines(Tail(names))

RECURSIVE PairLines(_)
PairLines(table) ==
    IF table = <<>> THEN <<>> ELSE PairLine(Head(table)) \o PairLines(Tail(table))

ScanInit ==
    /\ InitDriver
    /\ probe \in {[fn |-> "scan", arg |-> [ifaces |-> i, bidi |-> b, taps |-> t],
                   done |-> FALSE, out |-> NoText] :
                     i \in ScanIfaceLists, b \in ScanTables, t \in ScanTables}

\* get_resource_description(address) on a device that prints these reports.
ScanTopology ==
    /\ probe.fn = "scan"
    /\ ~probe.done
    /\ \E c \in {get_resource_description(
                    Answering(<<SerialTextOne, IfaceLines(probe.arg.ifaces),
                                PairLines(probe.arg.bidi), PairLines(probe.arg.taps)>>),
                    AddrChassis)} :
          probe' = [probe EXCEPT !.done = TRUE, !.out = [exc |-> c.exc, ret |-> c.ret]]
    /\ UNCHANGED <<patches, taps, mode, cli, switch_id, pc, last, login_reply>>

ScanNext == ScanTopology

ScanSpec == ScanInit /\ [][ScanNext]_vars

\* A scan has ended.
Scanned == probe.fn = "scan" /\ probe.done

\* The chassis a scan that returned gives.
ScannedPorts == probe.out.ret.chassis.ports
ScannedMaps == probe.out.ret.chassis.maps

\* Two device names of one interface: "et" and "ethernet" are the same prefix.
SameInterface(a, b) == SubEthernet(a, 1) = SubEthernet(b, 1)

\* The name denotes an interface that has a line in the interface list.
InIfaceList(name) ==
    \E k \in 1..Len(probe.arg.ifaces) : SameInterface(probe.arg.ifaces[k], name)

\* The Port created for the interface the name denotes: Ports are created in
\* the order of the lines.
PortFor(name) ==
    CHOOSE k \in 1..Len(probe.arg.ifaces) : SameInterface(probe.arg.ifaces[k], name)

\* Both names of a table entry denote interfaces of the interface list.
Resolvable(e) == InIfaceList(e[1]) /\ InIfaceList(e[2])

\* Port i lists Port j as a mapping.
Lists(i, j) == <<i, j>> \in ScannedMaps

\* C11: after get_resource_description, for every pair (s, d) of the
\* bidirectional-mapping table whose two names denote interfaces of the
\* interface list, the Port for s lists the Port for d and the Port for d
\* lists the Port for s; an interface list of et1 and et2 with the one
\* bidi-table line "et1 et2" gives exactly two Ports, each listing the other.
C11_BidiPairsLinkBothPorts ==
    Scanned =>
       /\ probe.out.exc = NoExc
       /\ \A n \in 1..Len(probe.arg.bidi) :
             Resolvable(probe.arg.bidi[n]) =>
                /\ Lists(PortFor(probe.arg.bidi[n][1]), PortFor(probe.arg.bidi[n][2]))
                /\ Lists(PortFor(probe.arg.bidi[n][2]), PortFor(probe.arg.bidi[n][1]))
       /\ (probe.arg = [ifaces |-> <<Et1, Et2>>, bidi |-> <<<<Et1, Et2>>>>, taps |-> <<>>]) =>
             /\ Len(ScannedPorts) = 2
             /\ ScannedMaps = {<<1, 2>>, <<2, 1>>}

\* The mapping "Port i lists Port j" is what a bidi-table entry between the
\* two interfaces gives, or a tap-table entry from j's interface to i's.
FromBidiEntry(i, j) ==
    \E e \in Range(probe.arg.bidi) :
       /\ Resolvable(e)
       /\ {PortFor(e[1]), PortFor(e[2])} = {i, j}

FromTapEntry(i, j) ==
    \E e \in Range(probe.arg.taps) :
       /\ Resolvable(e)
       /\ PortFor(e[1]) = j
       /\ PortFor(e[2]) = i

\* C12: get_resource_description returns whatever the tables name, every
\* mapping of the chassis it returns connects two Ports of that chassis, and
\* every mapping comes from a table entry whose two names are interfaces of
\* the interface list: an entry that names an absent interface (et99) gives
\* no mapping on any Port.
C12_UnknownPortsAreDropped ==
    Scanned =>
       /\ probe.out.exc = NoExc
       /\ \A m \in ScannedMaps :
             /\ m[1] \in 1..Len(ScannedPorts)
             /\ m[2] \in 1..Len(ScannedPorts)
             /\ FromBidiEntry(m[1], m[2]) \/ FromTapEntry(m[1], m[2])
       /\ ( /\ \A e \in Range(probe.arg.bidi) : ~Resolvable(e)
            /\ \A e \in Range(probe.arg.taps) : ~Resolvable(e) ) => ScannedMaps = {}

\* A scan of ethernet1/1 and ethernet2 whose bidi table names et99 and whose
\* tap table maps the two interfaces: the tap is in the chassis.
C12_Witness ==
    /\ Scanned
    /\ probe.out.exc = NoExc
    /\ probe.arg.ifaces = <<Eth1, Eth2>>
    /\ probe.arg.bidi = <<<<Eth2, Et99>>>>
    /\ probe.arg.taps = <<<<Eth1, Eth2>>>>
    /\ ScannedMaps = {<<2, 1>>}

\* C13: after get_resource_description, for every tap-table entry (src, dst)
\* whose two names denote interfaces of the interface list, the Port for dst
\* lists the Port for src, and the Port for src lists the Port for dst only
\* if another entry (the bidi pair of the two, or the tap dst -> src) says
\* so; a source tapped to several destinations is listed by each of them.
C13_TapLinksDestinationToSource ==
    Scanned =>
       /\ probe.out.exc = NoExc
       /\ \A n \in 1..Len(probe.arg.taps) :
             Resolvable(probe.arg.taps[n]) =>
                LET src == PortFor(probe.arg.taps[n][1])
                    dst == PortFor(probe.arg.taps[n][2])
                IN /\ Lists(dst, src)
                   /\ Lists(src, dst) => (FromBidiEntry(src, dst) \/ FromTapEntry(src, dst))

====
